---- MODULE Spec2Model ----
(***************************************************************************)
(* Model of merge.py: the kustomization patch updater.                    *)
(*                                                                         *)
(* Python strings are modelled as sequences of one-character strings, so   *)
(* that splitlines / strip / split / isdigit / `in` are computed on the    *)
(* text exactly as the code computes them.  A Python dict is modelled as   *)
(* the sequence of its <<key, value>> pairs in insertion order.            *)
(***************************************************************************)
EXTENDS Integers, Sequences, FiniteSets, TLC

\* ------------------------------------------------------------------ text

Digits == <<"0","1","2","3","4","5","6","7","8","9">>

DigitSet == {Digits[i] : i \in 1..10}

\* Characters str.strip() removes.
Whitespace == {" ", "\t", "\n", "\r"}

\* pat in s
Contains(s, pat) ==
  \E i \in 1..(Len(s) - Len(pat) + 1) : SubSeq(s, i, i + Len(pat) - 1) = pat

RECURSIVE rstrip(_)
rstrip(s) ==
  IF s # <<>> /\ s[Len(s)] \in Whitespace THEN rstrip(SubSeq(s, 1, Len(s) - 1)) ELSE s

RECURSIVE lstrip(_)
lstrip(s) ==
  IF s # <<>> /\ Head(s) \in Whitespace THEN lstrip(Tail(s)) ELSE s

strip(s) == lstrip(rstrip(s))

\* Index of the first occurrence of character c in s, 0 when there is none.
find(s, c) ==
  IF \E i \in 1..Len(s) : s[i] = c
  THEN CHOOSE i \in 1..Len(s) : s[i] = c /\ \A j \in 1..(i - 1) : s[j] # c
  ELSE 0

\* s.split(c, 1)
split1(s, c) ==
  LET i == find(s, c)
  IN IF i = 0 THEN <<s>> ELSE <<SubSeq(s, 1, i - 1), SubSeq(s, i + 1, Len(s))>>

\* s.splitlines()
RECURSIVE splitlines(_)
splitlines(s) ==
  IF s = <<>> THEN <<>>
  ELSE LET i == find(s, "\n")
       IN IF i = 0 THEN <<s>>
          ELSE <<SubSeq(s, 1, i - 1)>> \o splitlines(SubSeq(s, i + 1, Len(s)))

\* "\n".join(lines)
RECURSIVE join(_)
join(lines) ==
  IF lines = <<>> THEN <<>>
  ELSE IF Len(lines) = 1 THEN lines[1]
  ELSE lines[1] \o <<"\n">> \o join(Tail(lines))

isdigit(s) == s # <<>> /\ \A i \in 1..Len(s) : s[i] \in DigitSet

\* stripped.lstrip().startswith(('0', ..., '9'))
startswith_digit(s) == s # <<>> /\ Head(s) \in DigitSet

DigitValue(c) == (CHOOSE i \in 1..10 : Digits[i] = c) - 1

\* int(s) for a string of decimal digits
RECURSIVE int(_)
int(s) ==
  IF s = <<>> THEN 0 ELSE 10 * int(SubSeq(s, 1, Len(s) - 1)) + DigitValue(s[Len(s)])

\* str(n) for a non-negative integer
RECURSIVE str(_)
str(n) ==
  IF n < 10 THEN <<Digits[n + 1]>> ELSE str(n \div 10) \o <<Digits[(n % 10) + 1]>>

\* ------------------------------------------------------------------ dict

\* A dict is the sequence of its items, in insertion order.
keys(d) == [i \in 1..Len(d) |-> d[i][1]]

KeySet(d) == {d[i][1] : i \in 1..Len(d)}

\* d[k], for k in d
get(d, k) == d[CHOOSE i \in 1..Len(d) : d[i][1] = k][2]

\* d[k] = v
setitem(d, k, v) ==
  IF k \in KeySet(d)
  THEN [i \in 1..Len(d) |-> IF d[i][1] = k THEN <<k, v>> ELSE d[i]]
  ELSE Append(d, <<k, v>>)

\* d.update(new)
RECURSIVE update(_, _)
update(d, new) ==
  IF new = <<>> THEN d ELSE update(setitem(d, Head(new)[1], Head(new)[2]), Tail(new))

\* a < b as Python compares two strings of digits
RECURSIVE text_less(_, _)
text_less(a, b) ==
  IF a = <<>> THEN b # <<>>
  ELSE IF b = <<>> THEN FALSE
  ELSE IF Head(a) = Head(b) THEN text_less(Tail(a), Tail(b))
  ELSE DigitValue(Head(a)) < DigitValue(Head(b))

RECURSIVE insert_as_text(_, _)
insert_as_text(ks, k) ==
  IF ks = <<>> THEN <<k>>
  ELSE IF text_less(k, Head(ks)) THEN <<k>> \o ks
  ELSE <<Head(ks)>> \o insert_as_text(Tail(ks), k)

\* Mutant of sorted: sorted(ks), the keys compared as strings.
RECURSIVE sorted_as_text(_)
sorted_as_text(ks) ==
  IF ks = <<>> THEN <<>>
  ELSE insert_as_text(sorted_as_text(SubSeq(ks, 1, Len(ks) - 1)), ks[Len(ks)])

\* Insert k into the sorted list ks after every element whose int is <= int(k).
RECURSIVE insert_sorted(_, _)
insert_sorted(ks, k) ==
  IF ks = <<>> THEN <<k>>
  ELSE IF int(k) < int(Head(ks)) THEN <<k>> \o ks
  ELSE <<Head(ks)>> \o insert_sorted(Tail(ks), k)

\* sorted(ks, key=int): a stable sort
RECURSIVE sorted(_)
sorted(ks) ==
  IF ks = <<>> THEN <<>>
  ELSE insert_sorted(sorted(SubSeq(ks, 1, Len(ks) - 1)), ks[Len(ks)])

\* ------------------------------------------------------------- constants

TcpPath == <<"/","s","p","e","c","/","v","a","l","u","e","s","/","t","c","p">>

NodeportPath == <<"/","s","p","e","c","/","v","a","l","u","e","s","/","c","o","n","t","r","o","l","l","e","r","/","s","e","r","v","i","c","e","/","n","o","d","e","P","o","r","t","s","/","t","c","p">>

PATCH_TYPES ==
  [tcp |-> [path |-> TcpPath, key_name |-> "host_port"],
   nodeport |-> [path |-> NodeportPath, key_name |-> "node_port"]]

\* cfg["value_factory"](ns, svc, cp); cp is already formatted as text
value_factory(patch_type, ns, svc, cp) ==
  IF patch_type = "tcp" THEN ns \o <<"/">> \o svc \o <<":">> \o cp ELSE cp

OpAddLine == <<"-"," ","o","p",":"," ","a","d","d">>

PathNeedle == <<"p","a","t","h",":"," ">>

ValueMarker == <<"v","a","l","u","e",":"," ","|">>

Indent == <<" "," "," "," ">>

\* ----------------------------------------------------------------- codec

RECURSIVE parse_lines(_, _, _)
parse_lines(lines, in_value_block, current) ==
  IF lines = <<>> THEN current
  ELSE
    LET line == Head(lines)
        stripped == rstrip(line)
    IN IF strip(stripped) = ValueMarker
       THEN parse_lines(Tail(lines), TRUE, current)
       ELSE IF in_value_block /\ Contains(stripped, <<":">>)
                 /\ startswith_digit(lstrip(stripped))
       THEN LET rest == split1(line, ":")[2]
                kv == IF Contains(rest, <<":">>)
                      THEN split1(rest, ":")
                      ELSE <<strip(rest), <<>>>>
                key == strip(kv[1])
                value == strip(kv[2])
            IN parse_lines(Tail(lines), in_value_block,
                           IF isdigit(key) THEN setitem(current, key, value)
                           ELSE current)
       ELSE parse_lines(Tail(lines), in_value_block, current)

parse_existing_mappings(patch_content, target_path) ==
  parse_lines(splitlines(patch_content), FALSE, <<>>)

\* Mutant of build_patch_text: the first header line is `op: add`, without the
\* list dash the scan of update_patch looks for.
build_patch_text_bare_op(path, mappings) ==
  LET ks == sorted(keys(mappings))
      header == <<<<"o","p",":"," ","a","d","d">>,
                  <<" ", " ">> \o PathNeedle \o path,
                  <<" ", " ">> \o ValueMarker>>
      body == [i \in 1..Len(ks) |->
                 Indent \o ks[i] \o <<":", " ">> \o get(mappings, ks[i])]
      placeholder == IF mappings = <<>> THEN <<Indent \o <<"{", "}">>>> ELSE <<>>
  IN join(header \o body \o placeholder)

build_patch_text(path, mappings) ==
  LET ks == sorted(keys(mappings))
      header == <<OpAddLine,
                  <<" ", " ">> \o PathNeedle \o path,
                  <<" ", " ">> \o ValueMarker>>
      body == [i \in 1..Len(ks) |->
                 Indent \o ks[i] \o <<":", " ">> \o get(mappings, ks[i])]
      placeholder == IF mappings = <<>> THEN <<Indent \o <<"{", "}">>>> ELSE <<>>
  IN join(header \o body \o placeholder)

\* ---------------------------------------------------------------- merger

\* The new mapping(s) update_patch prepares from its arguments.  main_args are
\* the command line's strings; the second pair holds two integers, which the
\* value factory formats in decimal.
new_mappings(patch_type, main_key, main_args, second_pair) ==
  LET ns == IF patch_type = "tcp" THEN main_args[1] ELSE <<>>
      svc == IF patch_type = "tcp" THEN main_args[2] ELSE <<>>
      cp == IF patch_type = "tcp" THEN main_args[3] ELSE main_args[1]
      first == setitem(<<>>, str(main_key), value_factory(patch_type, ns, svc, cp))
  IN IF second_pair # <<>>
     THEN setitem(first, str(second_pair[1]),
                  value_factory(patch_type, ns, svc, str(second_pair[2])))
     ELSE first

\* Mutant of matches: the path is looked for as `path:<path>`, without the space.
matches_without_space(item, target_path) ==
  /\ "patch" \in DOMAIN item
  /\ Contains(item.patch, <<"p","a","t","h",":">> \o target_path)
  /\ Contains(item.patch, OpAddLine)

\* An item of data['patches'] the scan of update_patch stops at.
matches(item, target_path) ==
  /\ "patch" \in DOMAIN item
  /\ Contains(item.patch, PathNeedle \o target_path)
  /\ Contains(item.patch, OpAddLine)

\* Index (from 1) of the existing patch, 0 when the scan finds none
\* (patch_index = -1 in the code, whose indices start at 0).
find_patch(patches, target_path) ==
  IF \E i \in 1..Len(patches) : matches(patches[i], target_path)
  THEN CHOOSE i \in 1..Len(patches) :
         /\ matches(patches[i], target_path)
         /\ \A j \in 1..(i - 1) : ~matches(patches[j], target_path)
  ELSE 0

\* data.get('patches', [])
get_patches(data) == IF "patches" \in DOMAIN data THEN data.patches ELSE <<>>

\* The lines update_patch prints.
printed(action, patch_type, main_key, second_pair) ==
  <<[msg |-> action, patch_type |-> patch_type, key |-> main_key]>>
  \o (IF second_pair # <<>> THEN <<[msg |-> "+", key |-> second_pair[1]]>> ELSE <<>>)

\* Mutant of write_back: the new entry is always appended.
write_back_append(data, patch_index, new_patch_entry) ==
  [k \in DOMAIN data \cup {"patches"} |->
     IF k = "patches" THEN Append(get_patches(data), new_patch_entry)
     ELSE data[k]]

\* The document after update_patch stores new_patch_entry: over the existing
\* patch when the scan found one, at the end of data['patches'] otherwise.
write_back(data, patch_index, new_patch_entry) ==
  IF patch_index > 0
  THEN [data EXCEPT !.patches[patch_index] = new_patch_entry]
  ELSE [k \in DOMAIN data \cup {"patches"} |->
          IF k = "patches" THEN Append(get_patches(data), new_patch_entry)
          ELSE data[k]]

\* update_patch: the document it returns and what it prints.
update_patch(data, patch_type, main_key, main_args, second_pair) ==
  LET target_path == PATCH_TYPES[patch_type].path
      new == new_mappings(patch_type, main_key, main_args, second_pair)
      patches == get_patches(data)
      patch_index == find_patch(patches, target_path)
      current_mappings ==
        IF patch_index > 0
        THEN parse_existing_mappings(patches[patch_index].patch, target_path)
        ELSE <<>>
      merged == update(current_mappings, new)
      new_patch_entry == [patch |-> build_patch_text(target_path, merged)]
  IN [data |-> write_back(data, patch_index, new_patch_entry),
      out |-> printed(IF patch_index > 0 THEN "Updated existing" ELSE "Created new",
                      patch_type, main_key, second_pair)]

\* ------------------------------------------------------------ inputs

\* main_key and the second pair are integers (argparse type=int); main_args
\* are the command line's strings: a namespace, a service and a container port
\* for tcp, a container port for nodeport (whose value the configuration
\* declares an integer, "value_is_int").  Container ports are enumerated as
\* port numbers in decimal, names as Kubernetes names.

\* Ports given as main_key and as the key of the second pair.
KeyPorts == {9090, 30085}

\* Ports given as container port.
ContainerPorts == {8080, 9090}

Namespaces == {<<"p","r","o","d">>}

Services == {<<"s","v","c">>}

TcpArgs == {<<ns, svc, str(cp)>> : ns \in Namespaces, svc \in Services, cp \in ContainerPorts}

NodeportArgs == {<<str(cp)>> : cp \in ContainerPorts}

\* Ports given as the container port of the second pair.
SecondContainerPorts == {8080}

\* --second KEY PORT, or None
SecondPairs == {<<>>} \cup (KeyPorts \X SecondContainerPorts)

\* ------------------------------------------------------ starting documents

ProdSvc8080 == <<"p","r","o","d","/","s","v","c",":","8","0","8","0">>

\* A patch scoped by a target selector, whose fragment adds to the nodeport path.
TargetedEntry ==
  [patch |-> build_patch_text(NodeportPath, <<<<str(30085), str(8080)>>>>),
   target |-> [kind |-> "HelmRelease"]]

\* A fragment holding two operations, the first an add to the tcp path.
MultiOpEntry ==
  [patch |-> build_patch_text(TcpPath, <<<<str(30085), ProdSvc8080>>>>)
             \o <<"\n","-"," ","o","p",":"," ","r","e","m","o","v","e","\n",
                  " "," ","p","a","t","h",":"," ","/","s","p","e","c","/","u","d","p">>]

\* A managed-shape fragment for a longer path that starts with the tcp path.
LongerPathEntry ==
  [patch |-> build_patch_text(TcpPath \o <<"-","p","r","o","x","y">>,
                              <<<<str(30085), ProdSvc8080>>>>)]

\* A patch given by file name: it has no 'patch' key.
FileEntry == [path |-> "patch.yaml"]

NoPatchesDocument == [kind |-> "Kustomization"]

EmptyDocument == [kind |-> "Kustomization", patches |-> <<>>]

OpaqueDocument ==
  [kind |-> "Kustomization", patches |-> <<FileEntry, TargetedEntry, MultiOpEntry>>]

LongerPathDocument == [kind |-> "Kustomization", patches |-> <<LongerPathEntry>>]

StartingDocuments ==
  {NoPatchesDocument, EmptyDocument, OpaqueDocument, LongerPathDocument}

\* ------------------------------------------------------------ state machine

\* Longest sequence of update_patch calls explored on one document.
MaxCalls == 4

\* data: the document update_patch works on; out: the lines the last call
\* printed; call: the arguments of the last call; calls: how many calls the
\* document has been through.
VARIABLES data, out, call, calls

vars == <<data, out, call, calls>>

NoCall == [patch_type |-> "", main_key |-> 0, main_args |-> <<>>, second_pair |-> <<>>]

Init ==
  /\ data \in StartingDocuments
  /\ out = <<>>
  /\ call = NoCall
  /\ calls = 0

Merge(patch_type, main_key, main_args, second_pair) ==
  LET r == update_patch(data, patch_type, main_key, main_args, second_pair)
  IN /\ calls < MaxCalls
     /\ calls' = calls + 1
     /\ data' = r.data
     /\ out' = r.out
     /\ call' = [patch_type |-> patch_type, main_key |-> main_key,
                 main_args |-> main_args, second_pair |-> second_pair]

MergeTcp ==
  \E main_key \in KeyPorts, main_args \in TcpArgs, second_pair \in SecondPairs :
    Merge("tcp", main_key, main_args, second_pair)

MergeNodeport ==
  \E main_key \in KeyPorts, main_args \in NodeportArgs, second_pair \in SecondPairs :
    Merge("nodeport", main_key, main_args, second_pair)

Next == MergeTcp \/ MergeNodeport

Spec == Init /\ [][Next]_vars

\* The runs that start from a document with no patch entries.
InitEmpty ==
  /\ data \in {NoPatchesDocument, EmptyDocument}
  /\ out = <<>>
  /\ call = NoCall
  /\ calls = 0

SpecEmpty == InitEmpty /\ [][Next]_vars

\* ------------------------------------------------------- claim vocabulary

Families == {"tcp", "nodeport"}

\* The calls of update_patch the actions make, as records.
TcpCalls ==
  [patch_type : {"tcp"}, main_key : KeyPorts, main_args : TcpArgs,
   second_pair : SecondPairs]

Apply(d, c) == update_patch(d, c.patch_type, c.main_key, c.main_args, c.second_pair)

NewOf(c) == new_mappings(c.patch_type, c.main_key, c.main_args, c.second_pair)

PathOf(c) == PATCH_TYPES[c.patch_type].path

\* The dict with the items of function f, in ascending order of its keys.
RECURSIVE AsDict(_)
AsDict(f) ==
  IF DOMAIN f = {} THEN <<>>
  ELSE LET k == CHOOSE x \in DOMAIN f : \A y \in DOMAIN f : y <= x
       IN Append(AsDict([x \in DOMAIN f \ {k} |-> f[x]]), <<str(k), f[k]>>)

\* Every mapping from some of the ports K to the values V.
MappingsOver(K, V) == UNION {{AsDict(f) : f \in [S -> V]} : S \in SUBSET K}

\* Values of the two families' shapes.
TcpValues == {value_factory("tcp", a[1], a[2], a[3]) : a \in TcpArgs}

NodeportValues == {value_factory("nodeport", <<>>, <<>>, a[1]) : a \in NodeportArgs}

TcpMappings == MappingsOver(KeyPorts, TcpValues)

NodeportMappings == MappingsOver(KeyPorts, NodeportValues)

FamilyMappings(t) == IF t = "tcp" THEN TcpMappings ELSE NodeportMappings

\* Two dicts hold the same items.
SameMapping(d, e) ==
  Len(d) = Len(e) /\ {d[i] : i \in 1..Len(d)} = {e[i] : i \in 1..Len(e)}

\* An entry that is exactly {'patch': build_patch_text(path, m)}.
Encodes(item, path, m) == item = [patch |-> build_patch_text(path, m)]

\* The index of the located entry of family t in document d, 0 when there is none.
Located(d, t) == find_patch(get_patches(d), PATCH_TYPES[t].path)

\* The located entry of family t in document d.
EntryOf(d, t) == d.patches[Located(d, t)]

\* A step that is a call of update_patch for family t.
Called(t) == call'.patch_type = t

\* The entries of the starting documents: every other entry of a reachable
\* document was written by update_patch.
StartingEntries ==
  UNION {{get_patches(d)[i] : i \in 1..Len(get_patches(d))} : d \in StartingDocuments}

EngineWritten(item) == item \notin StartingEntries

\* Fragment text holds a body line for key k.
HasKeyLine(text, k) == Contains(text, <<"\n">> \o Indent \o k \o <<":">>)

\* Fragment text holds the line `path: <path>`, with exactly that path.
HasPathLine(text, path) ==
  \E j \in 1..Len(splitlines(text)) : strip(splitlines(text)[j]) = PathNeedle \o path

\* ---------------------------------------------------------------- claims

\* C1: under the exclusive policy of the nodeport family, a merge whose new
\* keys collide with a key of the mapping the managed nodeport entry encodes
\* leaves the document unchanged (the call fails with a ConflictError).
C1_ExclusiveConflictLeavesDocument ==
  [][\A m \in NodeportMappings :
       ( /\ Called("nodeport")
         /\ Located(data, "nodeport") > 0
         /\ Encodes(EntryOf(data, "nodeport"), NodeportPath, m)
         /\ KeySet(NewOf(call')) \cap KeySet(m) # {} )
       => data' = data]_vars

\* Number of occurrences of pat in s.
Occurrences(s, pat) ==
  Cardinality({i \in 1..(Len(s) - Len(pat) + 1) : SubSeq(s, i, i + Len(pat) - 1) = pat})

\* An entry the engine must not touch: it carries a target selector, or its
\* fragment holds more than one `op:`.
Unmanaged(item) ==
  \/ "target" \in DOMAIN item
  \/ "patch" \in DOMAIN item /\ Occurrences(item.patch, <<"o","p",":">>) > 1

UnmanagedEntries(patches) == SelectSeq(patches, Unmanaged)

\* C2: no merge alters or reorders an unmanaged entry (one with a target
\* selector, or with more than one `op:`), whatever path its fragment mentions.
C2_UnmanagedEntriesPreserved ==
  [][UnmanagedEntries(get_patches(data')) = UnmanagedEntries(get_patches(data))]_vars

\* C3: a tcp merge over a managed entry that encodes `current` never fails and
\* leaves that entry encoding exactly `current` overridden by the new pairs.
C3_MergeUpdateResult ==
  [][\A m \in TcpMappings :
       ( /\ Called("tcp")
         /\ Located(data, "tcp") > 0
         /\ Encodes(EntryOf(data, "tcp"), TcpPath, m) )
       => Encodes(data'.patches[Located(data, "tcp")], TcpPath,
                  update(m, NewOf(call')))]_vars

C5_OrderInvariance ==
  \A a, b \in TcpCalls :
    KeySet(NewOf(a)) \cap KeySet(NewOf(b)) = {}
    => LET ab == Apply(Apply(data, a).data, b).data
           ba == Apply(Apply(data, b).data, a).data
       IN /\ EntryOf(ab, "tcp") = EntryOf(ba, "tcp")
          /\ \A k \in KeySet(NewOf(a)) \cup KeySet(NewOf(b)) :
               HasKeyLine(EntryOf(ab, "tcp").patch, k)

\* C6: a fragment that encodes the mapping m decodes to m.
C6_RoundTrip ==
  \A t \in Families : \A m \in FamilyMappings(t) :
    \A i \in 1..Len(get_patches(data)) :
      Encodes(data.patches[i], PATCH_TYPES[t].path, m)
      => SameMapping(parse_existing_mappings(data.patches[i].patch,
                                             PATCH_TYPES[t].path), m)

\* The key of a body line: its text up to the first colon, the indent removed.
LineKey(line) == split1(lstrip(line), ":")[1]

\* The fragment is the three header lines for path followed by body lines
\* `    <key>: <value>` whose keys strictly ascend as integers.
Canonical(text, path) ==
  LET ls == splitlines(text)
  IN /\ Len(ls) >= 4
     /\ strip(ls[1]) = OpAddLine
     /\ strip(ls[2]) = PathNeedle \o path
     /\ strip(ls[3]) = ValueMarker
     /\ \A j \in 4..Len(ls) :
          /\ SubSeq(ls[j], 1, Len(Indent)) = Indent
          /\ Contains(ls[j], <<":", " ">>)
          /\ isdigit(LineKey(ls[j]))
     /\ \A j \in 4..(Len(ls) - 1) : int(LineKey(ls[j])) < int(LineKey(ls[j + 1]))

HeaderText(path) ==
  OpAddLine \o <<"\n", " ", " ">> \o PathNeedle \o path
  \o <<"\n", " ", " ">> \o ValueMarker \o <<"\n">>

\* A managed entry for the call's path that holds the call's new pairs.
NewFragment(item, c) ==
  /\ DOMAIN item = {"patch"}
  /\ Len(item.patch) > Len(HeaderText(PathOf(c)))
  /\ SubSeq(item.patch, 1, Len(HeaderText(PathOf(c)))) = HeaderText(PathOf(c))
  /\ \A j \in 1..Len(NewOf(c)) :
       Contains(item.patch \o <<"\n">>,
                <<"\n">> \o Indent \o NewOf(c)[j][1] \o <<":", " ">> \o NewOf(c)[j][2]
                \o <<"\n">>)

\* C8: a merge that located an entry at index i puts the new fragment at i and
\* leaves the length and every other entry as they were, reporting an update;
\* a merge that located none appends one new managed entry to the unchanged
\* list, reporting a creation.
C8_ReplaceOrAppend ==
  [][call' # NoCall =>
       LET ps == get_patches(data)
           i == find_patch(ps, PathOf(call'))
           qs == data'.patches
       IN IF i > 0
          THEN /\ Len(qs) = Len(ps)
               /\ \A j \in 1..Len(ps) : j # i => qs[j] = ps[j]
               /\ NewFragment(qs[i], call')
               /\ out'[1].msg = "Updated existing"
          ELSE /\ Len(qs) = Len(ps) + 1
               /\ SubSeq(qs, 1, Len(ps)) = ps
               /\ NewFragment(qs[Len(qs)], call')
               /\ out'[1].msg = "Created new"]_vars

\* A merge has updated the entry at an index before the end of the list, in
\* a list whose last entry an earlier merge wrote.
C8_Witness ==
  /\ call # NoCall
  /\ out[1].msg = "Updated existing"
  /\ Len(get_patches(data)) >= 2
  /\ Located(data, call.patch_type) < Len(data.patches)
  /\ EngineWritten(data.patches[Len(data.patches)])
  /\ NewFragment(EntryOf(data, call.patch_type), call)

\* C9: a merge for path P rewrites no entry whose fragment lacks the line
\* `path: P`: an entry declaring another path, such as a longer one that
\* starts with P, is left unchanged.
C9_ExactPathMatch ==
  [][call' # NoCall =>
       \A j \in 1..Len(get_patches(data)) :
         ( /\ "patch" \in DOMAIN data.patches[j]
           /\ ~HasPathLine(data.patches[j].patch, PathOf(call')) )
         => data'.patches[j] = data.patches[j]]_vars

\* In a document that started with no patch entries: at most one entry per
\* family path, the two locators select different entries, and the fragment
\* the last call wrote is the one its locator finds.
OneEntryPerFamily ==
  LET ps == get_patches(data)
  IN /\ Len(ps) <= Cardinality(Families)
     /\ \A t \in Families :
          Cardinality({i \in 1..Len(ps) : HasPathLine(ps[i].patch, PATCH_TYPES[t].path)}) <= 1
     /\ \A t, u \in Families :
          (t # u /\ Located(data, t) > 0) => Located(data, t) # Located(data, u)
     /\ call # NoCall => /\ Located(data, call.patch_type) > 0
                         /\ NewFragment(EntryOf(data, call.patch_type), call)

\* A merge for one family leaves the other family's entry as it was.
OtherFamilyUnchanged ==
  \A t \in Families :
    (call' # NoCall /\ call'.patch_type # t /\ Located(data, t) > 0)
    => /\ Located(data', t) = Located(data, t)
       /\ EntryOf(data', t) = EntryOf(data, t)

\* C10: from a document with no patch entries, the list holds at most one
\* entry per family path; the fragment a merge wrote is found by the locator;
\* a merge for one family neither selects nor changes the other family's entry.
C10_OneEntryPerFamily ==
  [](OneEntryPerFamily) /\ [][OtherFamilyUnchanged]_vars

\* Both families' entries exist and a merge has just updated one of them.
C10_Witness ==
  /\ Len(get_patches(data)) = 2
  /\ call # NoCall
  /\ out[1].msg = "Updated existing"
  /\ \A t \in Families : Located(data, t) > 0

====
